---- MODULE Spec2Model ----
(***************************************************************************)
(* A state-machine model of main.py: the portfolio API server.  One        *)
(* process at a time runs against a persistent document store: it seeds    *)
(* the store in its startup hook, then serves requests; a restart starts   *)
(* a new process against the same store.  Every store call can raise.      *)
(***************************************************************************)
EXTENDS Integers, Sequences, FiniteSets, TLC

\* ---------------------------------------------------------------- bounds
MaxPreBlogs == 2      \* documents the 'blogpost' collection may hold before the first start
MaxTime == 2          \* timestamps range over DatetimeMin..MaxTime
MaxContacts == 2      \* contact messages stored in one behaviour
MaxColls == 11        \* collection names list_collection_names may return
MaxErrLen == 51       \* length of the longest exception message
FirstId == 8          \* the first identifier the store assigns in a behaviour

\* ------------------------------------------------------ program constants
CollTrunc == 10       \* collections[:10]
ErrTrunc == 50        \* str(e)[:50]
DatetimeMin == 0      \* datetime.min, the least timestamp

Min(a, b) == IF a < b THEN a ELSE b

\* s[:n]
Take(s, n) == SubSeq(s, 1, Min(n, Len(s)))

\* An exception message of n characters, and n collection names.
Message(n) == [i \in 1..n |-> "c"]
Names(n) == [i \in 1..n |-> i]
ErrLens == {0, ErrTrunc - 1, ErrTrunc, ErrTrunc + 1, MaxErrLen}
CollCounts == {0, CollTrunc - 1, CollTrunc, CollTrunc + 1, MaxColls}

\* str(ObjectId): the identifier's digits, most significant first.
RECURSIVE str(_)
str(n) == IF n < 10 THEN <<n>> ELSE Append(str(n \div 10), n % 10)

\* x.get(key, default) for the one optional key of a blog post
HasPublished(x) == "published_at" \in DOMAIN x

VARIABLES
    db,          \* TRUE iff the store handle of this process is not None
    store,       \* collection name -> the documents of the collection, in natural order
    nextId,      \* the next identifier the store assigns
    pc,          \* where the process is: in the startup hook, serving, or failed at startup
    idx,         \* the loop index of the seeder's current for loop
    posts,       \* sample_posts as built by this run of the seeder
    resp,        \* the response to the last request
    seedPre,     \* history: the store when this process entered the startup hook
    seedCalls,   \* history: store calls the seeder made in this process
    seedRuns,    \* history: runs of the startup hook in this process
    handled,     \* history: a request handler of this process has reached the store
    issued,      \* history: the identifiers submit_contact has returned, in order
    seeded       \* history: the collections some run of the seeder has filled

vars == <<db, store, nextId, pc, idx, posts, resp, seedPre, seedCalls, seedRuns,
          handled, issued, seeded>>

sample_projects ==
    << [title |-> "Realtime Chat App"],
       [title |-> "Dev Portfolio Boilerplate"],
       [title |-> "AI Code Reviewer"] >>

sample_posts(t1, t2) ==
    << [slug |-> "build-fast-portfolios", published_at |-> t1],
       [slug |-> "shipping-with-fastapi", published_at |-> t2] >>

Slugs == {"build-fast-portfolios", "old-post", "nonexistent-slug"}
PreSlugs == {"old-post"}
\* One well-formed payload: the identifier does not depend on what is stored,
\* and the repeated payload is the case that could collide.
Payloads == {[message |-> "hello"]}

\* ------------------------------------------------------------ the store
\* Documents a 'blogpost' collection can hold that this program did not write.
PreDocs ==
    {[slug |-> s] : s \in PreSlugs}
      \cup {[slug |-> s, published_at |-> t] : s \in PreSlugs, t \in DatetimeMin..MaxTime}

PreBlogs == UNION {[1..n -> PreDocs] : n \in 0..MaxPreBlogs}
PreProjects == {<<>>, <<[title |-> "Legacy project"]>>}

\* The store gives the documents of a list identifiers from first on.
WithIds(docs, first) == [i \in 1..Len(docs) |-> [_id |-> first + i - 1] @@ docs[i]]

\* create_document(collection_name, data) of the adapter: raises when the
\* handle is absent or the insert fails, otherwise inserts one document
\* and returns the store-assigned identifier as a string.
create_document(collection_name, data, ok) ==
    IF ~db \/ ~ok
    THEN [raised |-> TRUE, store |-> store, nextId |-> nextId, id |-> <<>>]
    ELSE [raised |-> FALSE,
          store |-> [store EXCEPT ![collection_name] =
                        Append(@, [_id |-> nextId] @@ data)],
          nextId |-> nextId + 1,
          id |-> str(nextId)]

\* get_documents(collection_name, {}, limit=None) of the adapter: raises
\* when the handle is absent or the query fails, otherwise all documents.
get_documents(collection_name, ok) ==
    IF ~db \/ ~ok
    THEN [raised |-> TRUE, items |-> <<>>]
    ELSE [raised |-> FALSE, items |-> store[collection_name]]

\* db[collection].count_documents({})
count_documents(collection_name) == Len(store[collection_name])

\* db["blogpost"].find_one({"slug": slug}): the first match, or None (<<>>).
find_one(slug) ==
    LET hits == {i \in 1..Len(store["blogpost"]) : store["blogpost"][i].slug = slug}
    IN  IF hits = {} THEN <<>>
        ELSE <<store["blogpost"][CHOOSE i \in hits : \A j \in hits : i <= j]>>

\* ---------------------------------------------------------- responses
NoResp == [op |-> "none", status |-> 0, detail |-> "", body |-> <<>>, input |-> <<>>]

Response(op, status, detail, body, input) ==
    [op |-> op, status |-> status, detail |-> detail, body |-> body, input |-> input]

\* An exception no handler catches: the framework answers 500 with its own text.
Unhandled(op, input) == Response(op, 500, "Internal Server Error", <<>>, input)

\* raise HTTPException(status_code=..., detail=...)
HTTPException(op, status, detail, input) == Response(op, status, detail, <<>>, input)

Init ==
    /\ db \in BOOLEAN
    /\ \E b \in PreBlogs, p \in PreProjects :
          /\ store = [project |-> WithIds(p, FirstId + Len(b)),
                      blogpost |-> WithIds(b, FirstId),
                      contactmessage |-> <<>>]
          /\ nextId = FirstId + Len(b) + Len(p)
          /\ seedPre = store
    /\ pc = "seed_start"
    /\ idx = 0
    /\ posts = <<>>
    /\ resp = NoResp
    /\ seedCalls = 0
    /\ seedRuns = 0
    /\ handled = FALSE
    /\ issued = <<>>
    /\ seeded = {}

\* ------------------------------------------------------------- seeder
\* Mutant: the server accepts requests while the startup hook is still running.
ServingFromTheStart == pc \notin {"failed"}

\* @app.on_event("startup"): the hook runs before the server accepts requests.
Serving == pc = "serving"

\* if db is None: return
AfterHandleCheck(handle) == IF handle THEN "count_project" ELSE "serving"

\* Mutant: the emptiness guard is dropped, the seeder always inserts.
GuardDropped(n) == TRUE

\* ... == 0
IsZero(n) == n = 0

\* Mutant: a non-empty 'project' collection ends the seeder (the 'blogpost'
\* guard nested under the 'project' guard).
ProjectGuardReturns(n) == IF IsZero(n) THEN "ins_project" ELSE "serving"

\* where the seeder goes after the 'project' guard and after the 'blogpost' guard
AfterProjectGuard(n) == IF IsZero(n) THEN "ins_project" ELSE "count_blog"
AfterBlogGuard(n) == IF IsZero(n) THEN "ins_blog" ELSE "serving"

SeedStart ==
    /\ pc = "seed_start"
    /\ pc' = AfterHandleCheck(db)
    /\ seedRuns' = seedRuns + 1
    /\ seedPre' = store
    /\ seedCalls' = 0
    /\ UNCHANGED <<db, store, nextId, idx, posts, resp, handled, issued, seeded>>

SeedCountProjects ==
    /\ pc = "count_project"
    /\ \E ok \in BOOLEAN :
          pc' = IF ~db \/ ~ok THEN "failed"
                ELSE AfterProjectGuard(count_documents("project"))
    /\ idx' = 1
    /\ seedCalls' = seedCalls + 1
    /\ UNCHANGED <<db, store, nextId, posts, resp, seedPre, seedRuns, handled, issued, seeded>>

SeedInsertProject ==
    /\ pc = "ins_project"
    /\ \E ok \in BOOLEAN :
          LET r == create_document("project", sample_projects[idx], ok)
          IN  /\ store' = r.store
              /\ nextId' = r.nextId
              /\ pc' = IF r.raised THEN "failed"
                       ELSE IF idx = Len(sample_projects) THEN "count_blog"
                       ELSE "ins_project"
              /\ seeded' = IF ~r.raised /\ idx = Len(sample_projects)
                           THEN seeded \cup {"project"} ELSE seeded
    /\ idx' = idx + 1
    /\ seedCalls' = seedCalls + 1
    /\ UNCHANGED <<db, posts, resp, seedPre, seedRuns, handled, issued>>

SeedCountPosts ==
    /\ pc = "count_blog"
    /\ \E ok \in BOOLEAN :
          pc' = IF ~db \/ ~ok THEN "failed"
                ELSE AfterBlogGuard(count_documents("blogpost"))
    /\ \E t1 \in 1..MaxTime, t2 \in 1..MaxTime :
          /\ t1 <= t2
          /\ posts' = IF pc' = "ins_blog" THEN sample_posts(t1, t2) ELSE <<>>
    /\ idx' = 1
    /\ seedCalls' = seedCalls + 1
    /\ UNCHANGED <<db, store, nextId, resp, seedPre, seedRuns, handled, issued, seeded>>

SeedInsertPost ==
    /\ pc = "ins_blog"
    /\ \E ok \in BOOLEAN :
          LET r == create_document("blogpost", posts[idx], ok)
          IN  /\ store' = r.store
              /\ nextId' = r.nextId
              /\ pc' = IF r.raised THEN "failed"
                       ELSE IF idx = Len(posts) THEN "serving"
                       ELSE "ins_blog"
              /\ seeded' = IF ~r.raised /\ idx = Len(posts)
                           THEN seeded \cup {"blogpost"} ELSE seeded
    /\ idx' = idx + 1
    /\ seedCalls' = seedCalls + 1
    /\ UNCHANGED <<db, posts, resp, seedPre, seedRuns, handled, issued>>

\* ----------------------------------------------------------- handlers
\* GET / and GET /api/hello
read_root ==
    /\ Serving
    /\ resp' = Response("read_root", 200, "", <<"Hello from FastAPI Backend!">>, <<>>)
    /\ UNCHANGED <<db, store, nextId, pc, idx, posts, seedPre, seedCalls, seedRuns,
                   handled, issued, seeded>>

hello ==
    /\ Serving
    /\ resp' = Response("hello", 200, "", <<"Hello from the backend API!">>, <<>>)
    /\ UNCHANGED <<db, store, nextId, pc, idx, posts, seedPre, seedCalls, seedRuns,
                   handled, issued, seeded>>

\* What db.list_collection_names() can do: return names, or raise with a message.
ListOutcomes ==
    {[ok |-> TRUE, names |-> Names(n), msg |-> <<>>] : n \in CollCounts}
      \cup {[ok |-> FALSE, names |-> <<>>, msg |-> Message(m)] : m \in ErrLens}

\* Mutant: the inner try/except is missing, a failing listing escapes the handler.
test_database_uncaught(handle, out) ==
    IF handle
    THEN IF out.ok
         THEN Response("test_database", 200, "",
                       [database |-> <<"Connected & Working">>,
                        connection_status |-> "Connected",
                        collections |-> Take(out.names, CollTrunc)], out)
         ELSE Unhandled("test_database", out)
    ELSE Response("test_database", 200, "",
                  [database |-> <<"Available but not initialized">>,
                   connection_status |-> "Not Connected",
                   collections |-> <<>>], <<>>)

\* GET /test: the response as a function of the handle and of what listing does.
\* (database_url and database_name are overwritten from the environment at the
\* end and depend on nothing else; they are left out.)
test_database_response(handle, out) ==
    IF handle
    THEN IF out.ok
         THEN Response("test_database", 200, "",
                       [database |-> <<"Connected & Working">>,
                        connection_status |-> "Connected",
                        collections |-> Take(out.names, CollTrunc)], out)
         ELSE Response("test_database", 200, "",
                       [database |-> <<"Connected but Error: ", Take(out.msg, ErrTrunc)>>,
                        connection_status |-> "Connected",
                        collections |-> <<>>], out)
    ELSE Response("test_database", 200, "",
                  [database |-> <<"Available but not initialized">>,
                   connection_status |-> "Not Connected",
                   collections |-> <<>>], <<>>)

test_database ==
    /\ Serving
    /\ \E out \in ListOutcomes : resp' = test_database_response(db, out)
    /\ handled' = (handled \/ db)
    /\ UNCHANGED <<db, store, nextId, pc, idx, posts, seedPre, seedCalls, seedRuns,
                   issued, seeded>>

\* i["_id"] = str(i.get("_id")) for every item
StringifyIds(items) == [i \in 1..Len(items) |-> [items[i] EXCEPT !._id = str(@)]]

\* GET /api/projects
list_projects ==
    /\ Serving
    /\ \E ok \in BOOLEAN :
          LET r == get_documents("project", ok)
          IN  resp' = IF r.raised THEN Unhandled("list_projects", [ok |-> ok])
                      ELSE Response("list_projects", 200, "", StringifyIds(r.items),
                                    [ok |-> ok])
    /\ handled' = (handled \/ db)
    /\ UNCHANGED <<db, store, nextId, pc, idx, posts, seedPre, seedCalls, seedRuns,
                   issued, seeded>>

\* key=lambda x: x.get("published_at", datetime.min)
SortKey(x) == IF HasPublished(x) THEN x.published_at ELSE DatetimeMin

\* Mutant: reverse=True is missing, smaller keys first.
BeforeAscending(a, b) == SortKey(a) < SortKey(b)

\* reverse=True: larger keys first
Before(a, b) == SortKey(a) > SortKey(b)

\* list.sort is stable, with reverse=True too: an item goes after every item
\* that does not sort strictly after it.
InsertSorted(sorted, x) ==
    LET n == Cardinality({i \in 1..Len(sorted) : ~Before(x, sorted[i])})
    IN  SubSeq(sorted, 1, n) \o <<x>> \o SubSeq(sorted, n + 1, Len(sorted))

RECURSIVE Sorted(_)
Sorted(items) ==
    IF items = <<>> THEN <<>>
    ELSE InsertSorted(Sorted(SubSeq(items, 1, Len(items) - 1)), items[Len(items)])

\* GET /api/blogs
list_blogs ==
    /\ Serving
    /\ \E ok \in BOOLEAN :
          LET r == get_documents("blogpost", ok)
          IN  resp' = IF r.raised THEN Unhandled("list_blogs", [ok |-> ok])
                      ELSE Response("list_blogs", 200, "", StringifyIds(Sorted(r.items)),
                                    [ok |-> ok])
    /\ handled' = (handled \/ db)
    /\ UNCHANGED <<db, store, nextId, pc, idx, posts, seedPre, seedCalls, seedRuns,
                   issued, seeded>>

\* Mutant: the test of the lookup's result is inverted.
get_blog_inverted(handle, slug, ok, found) ==
    IF ~handle
    THEN HTTPException("get_blog", 500, "Database not available", [slug |-> slug, ok |-> ok])
    ELSE IF ~ok
    THEN Unhandled("get_blog", [slug |-> slug, ok |-> ok])
    ELSE IF found # <<>>
    THEN HTTPException("get_blog", 404, "Post not found", [slug |-> slug, ok |-> ok])
    ELSE Response("get_blog", 200, "", <<>>, [slug |-> slug, ok |-> ok])

\* Mutant: a failing lookup is caught and answered as "not found".
get_blog_swallows(handle, slug, ok, found) ==
    IF ~handle
    THEN HTTPException("get_blog", 500, "Database not available", [slug |-> slug, ok |-> ok])
    ELSE IF ~ok \/ found = <<>>
    THEN HTTPException("get_blog", 404, "Post not found", [slug |-> slug, ok |-> ok])
    ELSE Response("get_blog", 200, "", [found[1] EXCEPT !._id = str(@)],
                  [slug |-> slug, ok |-> ok])

\* GET /api/blogs/{slug}: the response as a function of the handle, of whether
\* find_one returns, and of what it returns (<<>> for None).
get_blog_response(handle, slug, ok, found) ==
    IF ~handle
    THEN HTTPException("get_blog", 500, "Database not available", [slug |-> slug, ok |-> ok])
    ELSE IF ~ok
    THEN Unhandled("get_blog", [slug |-> slug, ok |-> ok])
    ELSE IF found = <<>>
    THEN HTTPException("get_blog", 404, "Post not found", [slug |-> slug, ok |-> ok])
    ELSE Response("get_blog", 200, "", [found[1] EXCEPT !._id = str(@)],
                  [slug |-> slug, ok |-> ok])

get_blog ==
    /\ Serving
    /\ \E slug \in Slugs, ok \in BOOLEAN :
          resp' = get_blog_response(db, slug, ok, find_one(slug))
    /\ handled' = (handled \/ db)
    /\ UNCHANGED <<db, store, nextId, pc, idx, posts, seedPre, seedCalls, seedRuns,
                   issued, seeded>>

\* Mutant: the contact message goes to the wrong collection.
ContactIntoProjects == "project"

\* the collection submit_contact writes to
ContactCollection == "contactmessage"

\* Mutant: the identifier returned is not the one the store assigned.
ContactOkFixedId(doc_id) == [status |-> "ok", id |-> <<0>>]

\* return {"status": "ok", "id": doc_id}
ContactOk(doc_id) == [status |-> "ok", id |-> doc_id]

\* POST /api/contact: a body that does not fit ContactIn is rejected with 422
\* before the handler runs.
submit_contact ==
    /\ Serving
    /\ Len(store["contactmessage"]) < MaxContacts
    /\ \E wellformed \in BOOLEAN :
          IF ~wellformed
          THEN /\ resp' = HTTPException("submit_contact", 422, "Unprocessable Entity",
                                        [wellformed |-> FALSE])
               /\ UNCHANGED <<store, nextId, issued, handled>>
          ELSE \E payload \in Payloads, ok \in BOOLEAN :
                  LET r == create_document(ContactCollection, payload, ok)
                      input == [payload |-> payload, wellformed |-> TRUE, ok |-> ok]
                  IN  /\ store' = r.store
                      /\ nextId' = r.nextId
                      /\ handled' = (handled \/ db)
                      /\ resp' = IF r.raised THEN Unhandled("submit_contact", input)
                                 ELSE Response("submit_contact", 200, "",
                                               ContactOk(r.id), input)
                      /\ issued' = IF r.raised THEN issued
                                   ELSE Append(issued, ContactOk(r.id).id)
    /\ UNCHANGED <<db, pc, idx, posts, seedPre, seedCalls, seedRuns, seeded>>

\* A new process against the same store (python main.py again).
Restart ==
    /\ pc \in {"serving", "failed"}
    /\ pc' = "seed_start"
    /\ db' \in BOOLEAN
    /\ idx' = 0
    /\ posts' = <<>>
    /\ resp' = NoResp
    /\ seedPre' = store
    /\ seedCalls' = 0
    /\ seedRuns' = 0
    /\ handled' = FALSE
    /\ UNCHANGED <<store, nextId, issued, seeded>>

Next ==
    \/ SeedStart
    \/ SeedCountProjects
    \/ SeedInsertProject
    \/ SeedCountPosts
    \/ SeedInsertPost
    \/ read_root
    \/ hello
    \/ test_database
    \/ list_projects
    \/ list_blogs
    \/ get_blog
    \/ submit_contact
    \/ Restart

Spec == Init /\ [][Next]_vars

\* ------------------------------------------------------------- claims
Titles(docs) == [i \in 1..Len(docs) |-> docs[i].title]
SlugsOf(docs) == [i \in 1..Len(docs) |-> docs[i].slug]
SampleTitles == <<"Realtime Chat App", "Dev Portfolio Boilerplate", "AI Code Reviewer">>
SampleSlugs == <<"build-fast-portfolios", "shipping-with-fastapi">>

\* The seeder of this process ran to its end with the store handle present.
SeededWithStore == pc = "serving" /\ db

\* C1: a run of the seeder that completes with the store available turns an
\* empty 'project' collection into exactly the 3 sample projects in listed
\* order, and an empty 'blogpost' collection into exactly the 2 sample posts;
\* it leaves a collection that was not empty as it found it; and a collection
\* that some run has filled holds the sample set exactly once ever after,
\* however many processes start after that.
C1_SeedingIdempotent ==
    /\ SeededWithStore =>
          /\ seedPre["project"] = <<>> =>
                Titles(store["project"]) = SampleTitles /\ "project" \in seeded
          /\ seedPre["project"] # <<>> => store["project"] = seedPre["project"]
          /\ seedPre["blogpost"] = <<>> =>
                SlugsOf(store["blogpost"]) = SampleSlugs /\ "blogpost" \in seeded
          /\ seedPre["blogpost"] # <<>> => store["blogpost"] = seedPre["blogpost"]
    /\ "project" \in seeded => Titles(store["project"]) = SampleTitles
    /\ "blogpost" \in seeded => SlugsOf(store["blogpost"]) = SampleSlugs

\* A later process has run the seeder against the collections an earlier one filled.
C1_Witness ==
    /\ SeededWithStore
    /\ seeded = {"project", "blogpost"}
    /\ seedPre["project"] # <<>>
    /\ seedPre["blogpost"] # <<>>
    /\ Titles(store["project"]) = SampleTitles
    /\ SlugsOf(store["blogpost"]) = SampleSlugs

SeederWrites == SeedInsertProject \/ SeedInsertPost

C10_AbsentHandleAndIndependentGuards ==
    /\ ~db =>
          /\ pc \in {"seed_start", "serving"}
          /\ seedCalls = 0
          /\ store = seedPre
    /\ (SeededWithStore /\ seedPre["blogpost"] = <<>>) =>
          /\ SlugsOf(store["blogpost"]) = SampleSlugs
          /\ Len(store["blogpost"]) = Len(seedPre["blogpost"]) + 2
    /\ (pc = "serving" /\ ~db) => seedRuns = 1

\* 'project' was not empty and was skipped, 'blogpost' was empty and was seeded.
C10_Witness ==
    /\ SeededWithStore
    /\ seedPre["project"] # <<>>
    /\ store["project"] = seedPre["project"]
    /\ seedPre["blogpost"] = <<>>
    /\ Len(store["blogpost"]) = 2

\* The seeder returned at once because the handle is absent.
C10_WitnessAbsent == pc = "serving" /\ ~db /\ seedRuns = 1 /\ seedCalls = 0

\* Whether s is t[:Len(s)].
IsPrefix(s, t) == Len(s) <= Len(t) /\ s = SubSeq(t, 1, Len(s))

\* What the seeder has added to a collection since this process started.
AddedBySeeder(c) == SubSeq(store[c], Len(seedPre[c]) + 1, Len(store[c]))

\* C3 as stated: a failed operation (here: a startup that failed) has left
\* each collection either as it was or with the whole sample list added.
C3_Original ==
    pc = "failed" =>
        /\ AddedBySeeder("project") = <<>> \/ Len(AddedBySeeder("project")) = 3
        /\ AddedBySeeder("blogpost") = <<>> \/ Len(AddedBySeeder("blogpost")) = 2

StoreOps == {"list_projects", "list_blogs", "get_blog", "submit_contact"}

\* C3, amended: a request makes one store call: if the call fails the store
\* is unchanged and the response is a 500 (for /test: a 200 with the error as
\* text), and a request changes the store only by the one document a successful
\* submit_contact appends.  The seeder makes several store calls with no
\* rollback: a failure among them ends startup as failed and leaves each
\* collection as it was plus a prefix of its sample list, possibly a proper one.
C3_FailuresReportedSeedingNotAtomic ==
    /\ [](/\ pc = "failed" =>
                /\ db
                /\ seedCalls >= 1
                /\ IsPrefix(seedPre["project"], store["project"])
                /\ IsPrefix(seedPre["blogpost"], store["blogpost"])
                /\ IsPrefix(Titles(AddedBySeeder("project")), SampleTitles)
                /\ IsPrefix(SlugsOf(AddedBySeeder("blogpost")), SampleSlugs)
                /\ store["contactmessage"] = seedPre["contactmessage"]
          /\ (resp.op \in StoreOps /\ resp.status # 422 /\ ~resp.input.ok) =>
                resp.status = 500
          /\ (resp.op = "test_database" /\ db /\ ~resp.input.ok) =>
                /\ resp.status = 200
                /\ resp.body.database[2] = SubSeq(resp.input.msg, 1, Len(resp.body.database[2])))
    /\ [][(pc = "serving" /\ pc' = "serving") =>
            \/ store' = store
            \/ /\ resp'.op = "submit_contact"
               /\ resp'.status = 200
               /\ resp'.input.ok
               /\ store'["project"] = store["project"]
               /\ store'["blogpost"] = store["blogpost"]
               /\ Len(store'["contactmessage"]) = Len(store["contactmessage"]) + 1
               /\ IsPrefix(store["contactmessage"], store'["contactmessage"])]_vars

\* Startup failed after the seeder had inserted one of the three sample projects.
C3_Witness ==
    /\ pc = "failed"
    /\ Len(AddedBySeeder("project")) = 1
    /\ seedCalls = 3

\* ---- list_blogs
ListedBlogs == resp.op = "list_blogs" /\ resp.status = 200

\* The documents of 'blogpost' as list_blogs shows them, in store order.
Shown == [i \in 1..Len(store["blogpost"]) |->
             [store["blogpost"][i] EXCEPT !._id = str(@)]]

\* Where an item of the response stands in the store.
PlaceInStore(x) == CHOOSE k \in 1..Len(Shown) : Shown[k] = x

AllListed ==
    /\ Len(resp.body) = Len(Shown)
    /\ \A k \in 1..Len(Shown) : \E i \in 1..Len(resp.body) : resp.body[i] = Shown[k]

\* Among the documents that have a published_at, later ones come first.
NonIncreasing ==
    \A i, j \in 1..Len(resp.body) :
        (i < j /\ HasPublished(resp.body[i]) /\ HasPublished(resp.body[j])) =>
            resp.body[i].published_at >= resp.body[j].published_at

\* C4 as stated: all documents, non-increasing published_at, and every
\* document without a published_at after every document with one.
C4_Original ==
    ListedBlogs =>
        /\ AllListed
        /\ NonIncreasing
        /\ \A i, j \in 1..Len(resp.body) :
              (~HasPublished(resp.body[i]) /\ HasPublished(resp.body[j])) => j < i

\* C4, amended: all documents, non-increasing published_at, and every document
\* without a published_at after every document whose published_at is later
\* than datetime.min; documents without a published_at and documents whose
\* published_at is datetime.min itself keep, among themselves, the order the
\* store returned them in.
C4_ListBlogsSorted ==
    ListedBlogs =>
        /\ AllListed
        /\ NonIncreasing
        /\ \A i, j \in 1..Len(resp.body) :
              (/\ ~HasPublished(resp.body[i])
               /\ HasPublished(resp.body[j])
               /\ resp.body[j].published_at > 0) => j < i
        /\ \A i, j \in 1..Len(resp.body) :
              (/\ i < j
               /\ HasPublished(resp.body[i]) => resp.body[i].published_at = 0
               /\ HasPublished(resp.body[j]) => resp.body[j].published_at = 0)
                  => PlaceInStore(resp.body[i]) < PlaceInStore(resp.body[j])

\* A response that shows a document without a published_at before a document
\* whose published_at is datetime.min.
C4_Witness ==
    /\ ListedBlogs
    /\ \E i, j \in 1..Len(resp.body) :
          /\ i < j
          /\ ~HasPublished(resp.body[i])
          /\ HasPublished(resp.body[j])
          /\ resp.body[j].published_at = 0

\* ---- get_blog
Matches(slug) == {i \in 1..Len(store["blogpost"]) : store["blogpost"][i].slug = slug}

\* C5 as stated: 500 iff the handle is absent; otherwise 404 iff no document
\* has the slug; otherwise a document with the slug.
C5_Original ==
    resp.op = "get_blog" =>
        IF ~db THEN resp.status = 500
        ELSE IF Matches(resp.input.slug) = {} THEN resp.status = 404
        ELSE resp.status = 200 /\ resp.body.slug = resp.input.slug

\* C5, amended: 500 if the handle is absent or the lookup itself raises;
\* otherwise 404 if no document has the slug; otherwise the first document
\* with the slug, its identifier as a string.  404 is answered only with the
\* handle present and a lookup that returned no document.
C5_GetBlogOutcomes ==
    resp.op = "get_blog" =>
        /\ IF ~db
           THEN resp.status = 500 /\ resp.detail = "Database not available"
           ELSE IF ~resp.input.ok
           THEN resp.status = 500
           ELSE IF Matches(resp.input.slug) = {}
           THEN resp.status = 404 /\ resp.detail = "Post not found"
           ELSE /\ resp.status = 200
                /\ resp.body.slug = resp.input.slug
                /\ \E i \in Matches(resp.input.slug) :
                      /\ \A j \in Matches(resp.input.slug) : i <= j
                      /\ resp.body = Shown[i]
        /\ resp.status \in {200, 404, 500}
        /\ resp.status = 404 => (db /\ resp.input.ok /\ Matches(resp.input.slug) = {})

\* The handle is present, a document has the slug, and the lookup raised.
C5_Witness ==
    /\ resp.op = "get_blog"
    /\ db
    /\ ~resp.input.ok
    /\ Matches(resp.input.slug) # {}
    /\ resp.status = 500

\* ---- absent handle
\* A detail that says what is wrong, not the framework's text for any exception.
Explains(detail) == detail \notin {"", "Internal Server Error"}

\* C6 as stated: with the handle absent, each of the four operations answers
\* a 500 whose detail explains the unavailability.
C6_Original ==
    (~db /\ resp.op \in StoreOps /\ resp.status # 422) =>
        /\ resp.status = 500
        /\ Explains(resp.detail)

\* ---- submit_contact
Distinct(s) == \A i, j \in 1..Len(s) : i # j => s[i] # s[j]

\* C7: the identifiers submit_contact has returned are non-empty strings,
\* pairwise distinct, one per document of 'contactmessage' and in the same
\* order; a successful response carries status "ok" and the identifier of the
\* document just stored, which holds the payload; and a successful
\* submission makes 'contactmessage' exactly one document longer.
C7_ContactIdentifiers ==
    /\ [](/\ Distinct(issued)
          /\ \A i \in 1..Len(issued) : issued[i] # <<>>
          /\ Len(issued) = Len(store["contactmessage"])
          /\ \A i \in 1..Len(issued) : issued[i] = str(store["contactmessage"][i]._id)
          /\ (resp.op = "submit_contact" /\ resp.status = 200) =>
                /\ resp.body.status = "ok"
                /\ resp.body.id # <<>>
                /\ resp.body.id = issued[Len(issued)]
                /\ store["contactmessage"][Len(issued)].message = resp.input.payload.message)
    /\ [][(resp'.op = "submit_contact" /\ resp'.status = 200 /\ issued' # issued) =>
             Len(store'["contactmessage"]) = Len(store["contactmessage"]) + 1]_vars

\* The same payload stored twice, under two identifiers.
C7_Witness ==
    /\ Len(issued) = 2
    /\ store["contactmessage"][1].message = store["contactmessage"][2].message
    /\ resp.op = "submit_contact"
    /\ resp.status = 200

\* ---- read-only collections
Getters == {"read_root", "hello", "test_database", "list_projects", "list_blogs", "get_blog"}

\* C8: a step of a serving process leaves 'project' and 'blogpost' as they
\* are; a GET handler leaves the whole store as it is.
C8_SeededCollectionsReadOnly ==
    [][(pc = "serving" /\ pc' = "serving") =>
          /\ store'["project"] = store["project"]
          /\ store'["blogpost"] = store["blogpost"]
          /\ resp'.op \in Getters => store' = store]_vars

\* A contact message was stored while 'project' and 'blogpost' held documents.
C8_Witness ==
    /\ pc = "serving"
    /\ resp.op = "submit_contact"
    /\ resp.status = 200
    /\ store["contactmessage"] # <<>>
    /\ store["project"] # <<>>
    /\ store["blogpost"] # <<>>

\* ---- /test
\* C9: /test always answers 200; with the handle absent it reports the store
\* as not initialized; when listing fails it reports the first 50 characters
\* of the error message (all of it if shorter) in 'database'; when listing
\* succeeds 'collections' is the first 10 names (all of them if fewer).
C9_TestNeverRaises ==
    resp.op = "test_database" =>
        /\ resp.status = 200
        /\ ~db => /\ resp.body.database = <<"Available but not initialized">>
                  /\ resp.body.collections = <<>>
        /\ (db /\ ~resp.input.ok) =>
              /\ resp.body.database[1] = "Connected but Error: "
              /\ Len(resp.body.database[2]) <= 50
              /\ IsPrefix(resp.body.database[2], resp.input.msg)
              /\ Len(resp.input.msg) >= 50 => Len(resp.body.database[2]) = 50
              /\ Len(resp.input.msg) < 50 => resp.body.database[2] = resp.input.msg
        /\ (db /\ resp.input.ok) =>
              /\ resp.body.database = <<"Connected & Working">>
              /\ Len(resp.body.collections) <= 10
              /\ IsPrefix(resp.body.collections, resp.input.names)
              /\ Len(resp.input.names) >= 10 => Len(resp.body.collections) = 10
              /\ Len(resp.input.names) < 10 => resp.body.collections = resp.input.names

\* Listing failed with a message of more than 50 characters.
C9_Witness ==
    /\ resp.op = "test_database"
    /\ db
    /\ ~resp.input.ok
    /\ Len(resp.input.msg) > 50
    /\ Len(resp.body.database[2]) = 50
====
